---- MODULE Spec2Model ----
(***************************************************************************)
(* Model of the NCI PDC MCP server (src/src/index.ts): the tool handler    *)
(* pdc_graphql_query and the forwarder executePdcGraphQLQuery, which posts *)
(* a GraphQL query to a fixed endpoint and classifies the response.        *)
(*                                                                         *)
(* JavaScript strings are TLA+ strings.  JSON values are tagged records    *)
(* [t, v]; an object is a sequence of <<key, value>> pairs in insertion    *)
(* order, as JSON.parse and object literals produce them.                  *)
(* console.error calls write to the log only and are not modelled.         *)
(***************************************************************************)
EXTENDS Integers, Sequences, FiniteSets, TLC

(***************************************************************************)
(* Bounds of the model.                                                    *)
(***************************************************************************)
NumCalls == 2
MaxBodyLen == 1002

(***************************************************************************)
(* Program constants.                                                      *)
(***************************************************************************)
PDC_GRAPHQL_ENDPOINT == "https://pdc.cancer.gov/graphql"
TruncLimit == 1000
JsonMediaType == "application/json"
RequestHeaders ==
    << <<"Content-Type", "application/json">>,
       <<"User-Agent", "MCPNciPdcServer/0.1.0 (ModelContextProtocol; +https://modelcontextprotocol.io)">> >>

(***************************************************************************)
(* JSON values.                                                            *)
(***************************************************************************)
JNull == [t |-> "null", v |-> 0]
JBool(b) == [t |-> "bool", v |-> b]
JNum(n) == [t |-> "num", v |-> n]
JStr(s) == [t |-> "str", v |-> s]
JArr(elems) == [t |-> "arr", v |-> elems]
JObj(members) == [t |-> "obj", v |-> members]
Undefined == [t |-> "undefined", v |-> 0]

IsObject(x) == x.t = "obj"
IsJsonValue(x) == x.t \in {"null", "bool", "num", "str", "arr", "obj"}
HasKey(o, k) == IsObject(o) /\ \E i \in 1..Len(o.v) : o.v[i][1] = k
Get(o, k) == o.v[CHOOSE i \in 1..Len(o.v) : o.v[i][1] = k][2]

(***************************************************************************)
(* String primitives: s.slice(start, end) for 0 <= start, s.includes(n),   *)
(* and the character at a 1-based position ("" past the end).              *)
(***************************************************************************)
Min(a, b) == IF a <= b THEN a ELSE b
Slice(s, start, end) == SubSeq(s, start + 1, Min(end, Len(s)))
Includes(s, needle) ==
    \E i \in 1..(Len(s) - Len(needle) + 1) : SubSeq(s, i, i + Len(needle) - 1) = needle
Ch(s, i) == IF i >= 1 /\ i <= Len(s) THEN SubSeq(s, i, i) ELSE ""


(***************************************************************************)
(* JSON.parse.  The grammar covered: objects, arrays, strings with the     *)
(* escapes \" \\ \/ \n \t \r, integers, true, false, null and white space. *)
(* Every response body the model draws lies in this grammar or fails at a  *)
(* character every JSON grammar rejects.  A parse step yields              *)
(* [ok, val, pos]: success, the value and the position after it.           *)
(***************************************************************************)
ParseOk(val, pos) == [ok |-> TRUE, val |-> val, pos |-> pos]
ParseFail(pos) == [ok |-> FALSE, val |-> JNull, pos |-> pos]

DigitChars == "0123456789"
IsDigit(c) == c # "" /\ Includes(DigitChars, c)
DigitVal(c) == (CHOOSE k \in 1..10 : SubSeq(DigitChars, k, k) = c) - 1

RECURSIVE SkipWs(_, _)
SkipWs(s, i) == IF Ch(s, i) \in {" ", "\n", "\t", "\r"} THEN SkipWs(s, i + 1) ELSE i

RECURSIVE ScanInt(_, _, _)
ScanInt(s, i, acc) ==
    IF IsDigit(Ch(s, i)) THEN ScanInt(s, i + 1, acc * 10 + DigitVal(Ch(s, i)))
    ELSE [val |-> acc, pos |-> i]

ParseNumber(s, i) ==
    LET neg == Ch(s, i) = "-"
        j == IF neg THEN i + 1 ELSE i
        r == ScanInt(s, j, 0)
    IN  IF ~IsDigit(Ch(s, j)) THEN ParseFail(j)
        ELSE IF Ch(s, j) = "0" /\ IsDigit(Ch(s, j + 1)) THEN ParseFail(j + 1)
        ELSE ParseOk(JNum(IF neg THEN 0 - r.val ELSE r.val), r.pos)

RECURSIVE ScanString(_, _, _)
ScanString(s, i, acc) ==
    LET c == Ch(s, i)
        e == Ch(s, i + 1)
    IN  IF c = "" \/ c \in {"\n", "\t", "\r"} THEN ParseFail(i)
        ELSE IF c = "\"" THEN ParseOk(JStr(acc), i + 1)
        ELSE IF c = "\\" THEN
            IF e \in {"\"", "\\", "/"} THEN ScanString(s, i + 2, acc \o e)
            ELSE IF e = "n" THEN ScanString(s, i + 2, acc \o "\n")
            ELSE IF e = "t" THEN ScanString(s, i + 2, acc \o "\t")
            ELSE IF e = "r" THEN ScanString(s, i + 2, acc \o "\r")
            ELSE ParseFail(i + 1)
        ELSE ScanString(s, i + 1, acc \o c)

PutMember(members, k, val) ==
    IF \E i \in 1..Len(members) : members[i][1] = k
    THEN [i \in 1..Len(members) |-> IF members[i][1] = k THEN <<k, val>> ELSE members[i]]
    ELSE Append(members, <<k, val>>)

RECURSIVE ParseValue(_, _)
RECURSIVE ParseMembers(_, _, _)
RECURSIVE ParseElements(_, _, _)

ParseMembers(s, i, acc) ==
    LET j == SkipWs(s, i)
        k == ScanString(s, j + 1, "")
        c == SkipWs(s, k.pos)
        val == ParseValue(s, c + 1)
        e == SkipWs(s, val.pos)
        acc2 == PutMember(acc, k.val.v, val.val)
    IN  IF Ch(s, j) # "\"" THEN ParseFail(j)
        ELSE IF ~k.ok THEN ParseFail(k.pos)
        ELSE IF Ch(s, c) # ":" THEN ParseFail(c)
        ELSE IF ~val.ok THEN ParseFail(val.pos)
        ELSE IF Ch(s, e) = "," THEN ParseMembers(s, e + 1, acc2)
        ELSE IF Ch(s, e) = "}" THEN ParseOk(JObj(acc2), e + 1)
        ELSE ParseFail(e)

ParseElements(s, i, acc) ==
    LET val == ParseValue(s, i)
        e == SkipWs(s, val.pos)
        acc2 == Append(acc, val.val)
    IN  IF ~val.ok THEN ParseFail(val.pos)
        ELSE IF Ch(s, e) = "," THEN ParseElements(s, e + 1, acc2)
        ELSE IF Ch(s, e) = "]" THEN ParseOk(JArr(acc2), e + 1)
        ELSE ParseFail(e)

ParseValue(s, i) ==
    LET j == SkipWs(s, i)
        c == Ch(s, j)
        k == SkipWs(s, j + 1)
    IN  IF c = "{" THEN
            IF Ch(s, k) = "}" THEN ParseOk(JObj(<<>>), k + 1) ELSE ParseMembers(s, k, <<>>)
        ELSE IF c = "[" THEN
            IF Ch(s, k) = "]" THEN ParseOk(JArr(<<>>), k + 1) ELSE ParseElements(s, k, <<>>)
        ELSE IF c = "\"" THEN ScanString(s, j + 1, "")
        ELSE IF c = "-" \/ IsDigit(c) THEN ParseNumber(s, j)
        ELSE IF Slice(s, j - 1, j + 3) = "null" THEN ParseOk(JNull, j + 4)
        ELSE IF Slice(s, j - 1, j + 3) = "true" THEN ParseOk(JBool(TRUE), j + 4)
        ELSE IF Slice(s, j - 1, j + 4) = "false" THEN ParseOk(JBool(FALSE), j + 5)
        ELSE ParseFail(j)

\* JSON.parse(text): [ok, val]; ok = FALSE stands for the SyntaxError.
JsonParse(text) ==
    LET r == ParseValue(text, 1)
    IN  IF r.ok /\ SkipWs(text, r.pos) = Len(text) + 1
        THEN [ok |-> TRUE, val |-> r.val]
        ELSE [ok |-> FALSE, val |-> JNull]

(***************************************************************************)
(* JSON.stringify(value, null, gap): gap = "" is the compact form used for *)
(* the request body, gap = "  " the indented form of the tool output.      *)
(***************************************************************************)
EscChar(c) ==
    IF c = "\"" THEN "\\\""
    ELSE IF c = "\\" THEN "\\\\"
    ELSE IF c = "\n" THEN "\\n"
    ELSE IF c = "\t" THEN "\\t"
    ELSE IF c = "\r" THEN "\\r"
    ELSE c

RECURSIVE Escape(_)
Escape(s) ==
    IF Len(s) = 0 THEN ""
    ELSE IF Len(s) = 1 THEN EscChar(s)
    ELSE Escape(SubSeq(s, 1, Len(s) \div 2)) \o Escape(SubSeq(s, Len(s) \div 2 + 1, Len(s)))

Quote(s) == "\"" \o Escape(s) \o "\""

RECURSIVE Join(_, _)
Join(parts, sep) ==
    IF Len(parts) = 0 THEN ""
    ELSE IF Len(parts) = 1 THEN parts[1]
    ELSE parts[1] \o sep \o Join(Tail(parts), sep)

Wrap(open, parts, close, gap, ind) ==
    IF Len(parts) = 0 THEN open \o close
    ELSE IF gap = "" THEN open \o Join(parts, ",") \o close
    ELSE open \o "\n" \o ind \o gap \o Join(parts, ",\n" \o ind \o gap)
              \o "\n" \o ind \o close

RECURSIVE Stringify(_, _, _)
Stringify(x, gap, ind) ==
    IF x.t = "null" THEN "null"
    ELSE IF x.t = "bool" THEN (IF x.v THEN "true" ELSE "false")
    ELSE IF x.t = "num" THEN ToString(x.v)
    ELSE IF x.t = "str" THEN Quote(x.v)
    ELSE IF x.t = "arr" THEN
        Wrap("[", [i \in 1..Len(x.v) |->
                      IF x.v[i].t = "undefined" THEN "null"
                      ELSE Stringify(x.v[i], gap, ind \o gap)], "]", gap, ind)
    ELSE
        LET kept == SelectSeq(x.v, LAMBDA m : m[2].t # "undefined")
        IN  Wrap("{", [i \in 1..Len(kept) |->
                          Quote(kept[i][1]) \o ":" \o (IF gap = "" THEN "" ELSE " ")
                              \o Stringify(kept[i][2], gap, ind \o gap)], "}", gap, ind)

(***************************************************************************)
(* JavaScript coercions used by the forwarder.                             *)
(***************************************************************************)
\* if (x): undefined, null, false, 0 and "" are falsy, every object truthy.
Truthy(x) ==
    IF x.t \in {"undefined", "null"} THEN FALSE
    ELSE IF x.t = "bool" THEN x.v
    ELSE IF x.t = "num" THEN x.v # 0
    ELSE IF x.t = "str" THEN x.v # ""
    ELSE TRUE

\* A thrown value is an Error object [t |-> "Error", v |-> message] or any
\* other value.
ErrorObj(message) == [t |-> "Error", v |-> message]
InstanceOfError(x) == x.t = "Error"

\* String(x) for the primitive values a throw can carry.
JsString(x) ==
    IF x.t = "str" THEN x.v
    ELSE IF x.t = "num" THEN ToString(x.v)
    ELSE IF x.t = "bool" THEN (IF x.v THEN "true" ELSE "false")
    ELSE IF x.t = "null" THEN "null"
    ELSE IF x.t = "undefined" THEN "undefined"
    ELSE IF x.t = "Error" THEN (IF x.v = "" THEN "Error" ELSE "Error: " \o x.v)
    ELSE "[object Object]"

(***************************************************************************)
(* The Response object of the fetch API.  A response is                    *)
(* [status, contentType, body, streamError]: contentType is what           *)
(* headers.get("content-type") returns (JNull or a string), body is JNull  *)
(* for a response without a body (null body status) or the text the        *)
(* upstream sends, streamError tells whether the connection breaks while   *)
(* the body is read.  A settled promise is [ok, val, error].               *)
(***************************************************************************)
Resolved(val) == [ok |-> TRUE, val |-> val, error |-> JNull]
Rejected(error) == [ok |-> FALSE, val |-> JNull, error |-> error]

NullBodyStatuses == {204, 205, 304}
BodyUsedError == ErrorObj("Body has already been used. It can only be used once.")
StreamError == ErrorObj("terminated")
SyntaxError == ErrorObj("Unexpected token in JSON")

ResponseOkBelow400(status) == status >= 200 /\ status < 400

\* response.ok
ResponseOk(status) == status >= 200 /\ status <= 299

\* response.text(), called when the body has (used) or has not been read.
ResponseText(resp, used) ==
    IF resp.body.t = "null" THEN Resolved(JStr(""))
    ELSE IF used THEN Rejected(BodyUsedError)
    ELSE IF resp.streamError THEN Rejected(StreamError)
    ELSE Resolved(resp.body)

\* response.json(): reads the whole body, then parses it.
ResponseJson(resp, used) ==
    LET text == ResponseText(resp, used)
        parsed == JsonParse(text.val.v)
    IN  IF ~text.ok THEN text
        ELSE IF parsed.ok THEN Resolved(parsed.val)
        ELSE Rejected(SyntaxError)

\* Reading a body that is not null marks the response as used.
BodyUsedAfterRead(resp) == resp.body.t # "null"

(***************************************************************************)
(* executePdcGraphQLQuery: the values it builds.                           *)
(***************************************************************************)
Return(value) == [kind |-> "return", value |-> value]
Throw(error) == [kind |-> "throw", value |-> error]
NoOutcome == [kind |-> "none", value |-> JNull]

BodyData(query, variables) ==
    JObj(IF Truthy(variables)
         THEN << <<"query", JStr(query)>>, <<"variables", variables>> >>
         ELSE << <<"query", JStr(query)>> >>)

FetchRequest(query, variables) ==
    [url |-> PDC_GRAPHQL_ENDPOINT, method |-> "POST", headers |-> RequestHeaders,
     body |-> Stringify(BodyData(query, variables), "", "")]

DeclaresJsonAnyHeader(contentType) == Truthy(contentType)

\* contentType && contentType.includes("application/json")
DeclaresJson(contentType) == Truthy(contentType) /\ Includes(contentType.v, JsonMediaType)

TruncateTextOffByOne(text) == Slice(text, 0, TruncLimit + 1)

\* errorText.slice(0, 1000)
TruncateText(text) == Slice(text, 0, TruncLimit)

ErrorEnvelopeBareArray(message, extensions) ==
    JArr(<< JObj(<< <<"message", JStr(message)>>, <<"extensions", JObj(extensions)>> >>) >>)

\* { errors: [{ message, extensions }] }
ErrorEnvelope(message, extensions) ==
    JObj(<< <<"errors", JArr(<< JObj(<< <<"message", JStr(message)>>,
                                        <<"extensions", JObj(extensions)>> >>) >>)>> >>)

ParseFailureEnvelope(status, errorText) ==
    ErrorEnvelope("NCI PDC API Error " \o ToString(status) \o ": Failed to parse JSON response.",
                  << <<"statusCode", JNum(status)>>,
                     <<"responseText", JStr(TruncateText(errorText))>> >>)

NonJsonEnvelope(status, contentType, errorText) ==
    ErrorEnvelope("NCI PDC API Error " \o ToString(status) \o ": Non-JSON response received.",
                  << <<"statusCode", JNum(status)>>,
                     <<"contentType", contentType>>,
                     <<"responseText", JStr(TruncateText(errorText))>> >>)

HttpErrorEnvelope(status, responseBody) ==
    ErrorEnvelope("NCI PDC API HTTP Error " \o ToString(status),
                  << <<"statusCode", JNum(status)>>,
                     <<"responseBody", responseBody>> >>)

ClientErrorEnvelope(error) ==
    ErrorEnvelope(IF InstanceOfError(error) THEN error.v ELSE JsString(error),
                  << <<"clientError", JBool(TRUE)>> >>)

CatchHandlerRethrow(error) == Throw(error)

\* The outer catch block.
CatchHandler(error) == Return(ClientErrorEnvelope(error))

StatusCheckWrapData(status, responseBody) ==
    IF ~ResponseOk(status) THEN Return(HttpErrorEnvelope(status, responseBody))
    ELSE Return(JObj(<< <<"data", responseBody>> >>))

\* After a successful parse: the response.ok test and the final return.
StatusCheck(status, responseBody) ==
    IF ~ResponseOk(status) THEN Return(HttpErrorEnvelope(status, responseBody))
    ELSE Return(responseBody)

\* The tool handler's return value for a forwarder result.
ToolContent(result) ==
    [content |-> << [type |-> "text", text |-> Stringify(result, "  ", "")] >>]

(***************************************************************************)
(* The environment: what the client asks and how the upstream behaves.     *)
(* An environment gives the calls the client makes (sessions), the inputs  *)
(* it passes and the responses and transport errors the upstream can       *)
(* produce.  ConcurrentEnv is a sub-environment of FullEnv with every call *)
(* id active.  The variable scenario, fixed at the start, selects one.     *)
(***************************************************************************)
CallIds == 1..NumCalls

RECURSIVE Pad(_)
Pad(n) ==
    IF n <= 0 THEN ""
    ELSE IF n % 2 = 0 THEN Pad(n \div 2) \o Pad(n \div 2)
    ELSE "x" \o Pad(n - 1)

\* An HTML page of exactly n characters (n >= 6).
HtmlBody(n) == "<html>" \o Pad(n - 6)

Queries ==
    { "{ __schema { queryType { name } } }",
      "{ case(case_submitter_id: \"01BR001\" acceptDUA: true) { disease_type } }" }

VariablesPool == { Undefined, JObj(<< <<"caseId", JStr("01BR001")>> >>) }

ShortBodies ==
    { "{\"data\":{\"x\":1}}",
      "{\"message\":\"boom\"}",
      "{\"data\":null,\"errors\":[{\"message\":\"Field not found\"}]}",
      "null", "[1]", "\"s\"", "7",
      "", "<html>", "{\"data\":" }

LongBodies == { HtmlBody(n) : n \in (TruncLimit - 1)..MaxBodyLen }

ContentTypes ==
    { JNull, JStr(""), JStr("application/json"), JStr("application/json; charset=utf-8"),
      JStr("text/html") }

Statuses == {200, 204, 299, 300, 500}

ResponsesOver(statuses, contentTypes, bodies) ==
    { [status |-> st, contentType |-> ct, body |-> JStr(b), streamError |-> se] :
        st \in statuses \ NullBodyStatuses, ct \in contentTypes, b \in bodies,
        se \in BOOLEAN }
    \cup
    { [status |-> st, contentType |-> ct, body |-> JNull, streamError |-> FALSE] :
        st \in statuses \cap NullBodyStatuses, ct \in contentTypes }

FullEnv ==
    [ sessions |-> {1},
      inputs |-> Queries \X VariablesPool,
      responses |-> ResponsesOver(Statuses, ContentTypes, ShortBodies \cup LongBodies),
      errors |-> { ErrorObj("fetch failed"), JStr("ECONNRESET"), JNum(42) } ]

ConcurrentEnv ==
    [ sessions |-> CallIds,
      inputs |-> { <<"{ __schema { queryType { name } } }", Undefined>> },
      responses |->
          { r \in ResponsesOver({200, 204, 500}, {JStr("application/json"), JStr("text/html")},
                                {"{\"data\":{\"x\":1}}", "<html>"}) : ~r.streamError },
      errors |-> { ErrorObj("fetch failed") } ]

(***************************************************************************)
(* State.  calls[c] is one invocation of the tool: the handler's and the   *)
(* forwarder's locals and the position (pc) at which it is suspended;      *)
(* sent[c] is the sequence of HTTP requests it has issued.                 *)
(***************************************************************************)
VARIABLES scenario, calls, sent
vars == <<scenario, calls, sent>>

env == IF scenario = "concurrent" THEN ConcurrentEnv ELSE FullEnv

NoResponse == [status |-> 0, contentType |-> JNull, body |-> JNull, streamError |-> FALSE]
NoContent == [content |-> <<>>]

IdleCall ==
    [ pc |-> "idle", query |-> "", variables |-> Undefined,
      fetchState |-> "none", fetchError |-> JNull, response |-> NoResponse,
      bodyUsed |-> FALSE, transportFailed |-> FALSE,
      outcome |-> NoOutcome, content |-> NoContent ]

InitWith(name) ==
    /\ scenario = name
    /\ calls = [c \in CallIds |-> IdleCall]
    /\ sent = [c \in CallIds |-> <<>>]

Init == InitWith("single")
InitConcurrent == InitWith("concurrent")

\* The response most recently stored by any call, as a field shared by all
\* calls would hold it.
ResponseOfShared(c) ==
    IF \E d \in CallIds : d # c /\ calls[d].fetchState = "resolved"
    THEN calls[CHOOSE d \in CallIds : d # c /\ calls[d].fetchState = "resolved"].response
    ELSE calls[c].response

\* The forwarder's local `response` of call c.
ResponseOf(c) == calls[c].response

\* The client invokes pdc_graphql_query; the handler calls the forwarder,
\* which builds the request and awaits fetch.
Invoke(c, query, variables) ==
    /\ c \in env.sessions
    /\ <<query, variables>> \in env.inputs
    /\ calls[c].pc = "idle"
    /\ calls' = [calls EXCEPT ![c].pc = "fetch", ![c].query = query,
                              ![c].variables = variables, ![c].fetchState = "pending"]
    /\ sent' = [sent EXCEPT ![c] = Append(@, FetchRequest(query, variables))]
    /\ UNCHANGED scenario

FetchRejectRetry(c, error) ==
    /\ error \in env.errors
    /\ calls[c].pc = "fetch"
    /\ sent' = [sent EXCEPT ![c] = Append(@, FetchRequest(calls[c].query, calls[c].variables))]
    /\ UNCHANGED <<scenario, calls>>

\* fetch rejects: the catch block returns the client error envelope.
FetchReject(c, error) ==
    /\ error \in env.errors
    /\ calls[c].pc = "fetch"
    /\ calls' = [calls EXCEPT ![c].pc = "returned", ![c].fetchState = "rejected",
                              ![c].fetchError = error, ![c].transportFailed = TRUE,
                              ![c].outcome = CatchHandler(error)]
    /\ UNCHANGED <<scenario, sent>>

\* fetch resolves: the content-type test starts response.json() or
\* response.text() and the forwarder awaits it.
FetchResolve(c, resp) ==
    /\ resp \in env.responses
    /\ calls[c].pc = "fetch"
    /\ calls' = [calls EXCEPT ![c].pc = IF DeclaresJson(resp.contentType) THEN "json" ELSE "text",
                              ![c].fetchState = "resolved",
                              ![c].response = resp,
                              ![c].bodyUsed = BodyUsedAfterRead(resp)]
    /\ UNCHANGED <<scenario, sent>>

\* response.json() settles.  On success the status check returns; on any
\* rejection the inner catch calls response.text() and awaits it.
JsonSettle(c) ==
    LET resp == ResponseOf(c)
        json == ResponseJson(resp, FALSE)
    IN  /\ calls[c].pc = "json"
        /\ calls' = IF json.ok
                    THEN [calls EXCEPT ![c].pc = "returned",
                                       ![c].outcome = StatusCheck(resp.status, json.val)]
                    ELSE [calls EXCEPT ![c].pc = "errorText",
                                       ![c].transportFailed = (json.error = StreamError)]
        /\ UNCHANGED <<scenario, sent>>

\* The response.text() of the inner catch settles.
ErrorTextSettle(c) ==
    LET resp == ResponseOf(c)
        text == ResponseText(resp, calls[c].bodyUsed)
    IN  /\ calls[c].pc = "errorText"
        /\ calls' = [calls EXCEPT ![c].pc = "returned",
                                  ![c].outcome =
                                      IF text.ok
                                      THEN Return(ParseFailureEnvelope(resp.status, text.val.v))
                                      ELSE CatchHandler(text.error)]
        /\ UNCHANGED <<scenario, sent>>

\* The response.text() of the non-JSON branch settles.
TextSettle(c) ==
    LET resp == ResponseOf(c)
        text == ResponseText(resp, FALSE)
    IN  /\ calls[c].pc = "text"
        /\ calls' = [calls EXCEPT ![c].pc = "returned",
                                  ![c].transportFailed = ~text.ok,
                                  ![c].outcome =
                                      IF text.ok
                                      THEN Return(NonJsonEnvelope(resp.status, resp.contentType,
                                                                  text.val.v))
                                      ELSE CatchHandler(text.error)]
        /\ UNCHANGED <<scenario, sent>>

\* The handler resumes after the forwarder: it wraps the result as one text
\* block; an exception from the forwarder would reject the handler.
ToolReturn(c) ==
    /\ calls[c].pc = "returned"
    /\ calls' = IF calls[c].outcome.kind = "return"
                THEN [calls EXCEPT ![c].pc = "done",
                                   ![c].content = ToolContent(calls[c].outcome.value)]
                ELSE [calls EXCEPT ![c].pc = "failed"]
    /\ UNCHANGED <<scenario, sent>>

\* The forwarder run to completion on one upstream behaviour b: a rejected
\* fetch [rejected |-> TRUE, error] or a response [rejected |-> FALSE, resp].
Forward(b) ==
    LET resp == b.resp
        json == ResponseJson(resp, FALSE)
        errorText == ResponseText(resp, BodyUsedAfterRead(resp))
        text == ResponseText(resp, FALSE)
    IN  IF b.rejected THEN CatchHandler(b.error)
        ELSE IF DeclaresJson(resp.contentType) THEN
            IF json.ok THEN StatusCheck(resp.status, json.val)
            ELSE IF errorText.ok
                 THEN Return(ParseFailureEnvelope(resp.status, errorText.val.v))
                 ELSE CatchHandler(errorText.error)
        ELSE IF text.ok
             THEN Return(NonJsonEnvelope(resp.status, resp.contentType, text.val.v))
             ELSE CatchHandler(text.error)

Next ==
    \/ \E c \in CallIds, in \in FullEnv.inputs : Invoke(c, in[1], in[2])
    \/ \E c \in CallIds, error \in FullEnv.errors : FetchReject(c, error)
    \/ \E c \in CallIds, resp \in FullEnv.responses : FetchResolve(c, resp)
    \/ \E c \in CallIds : JsonSettle(c)
    \/ \E c \in CallIds : ErrorTextSettle(c)
    \/ \E c \in CallIds : TextSettle(c)
    \/ \E c \in CallIds : ToolReturn(c)

Spec == Init /\ [][Next]_vars
SpecConcurrent == InitConcurrent /\ [][Next]_vars

(***************************************************************************)
(* Vocabulary of the properties.                                           *)
(***************************************************************************)
\* The forwarder of call c has returned (or thrown) to the handler.
Settled(c) == calls[c].pc \in {"returned", "done", "failed"}
\* The upstream answered call c and the whole body arrived.
Delivered(c) == calls[c].fetchState = "resolved" /\ ~calls[c].response.streamError
StatusOf(c) == calls[c].response.status
HeaderOf(c) == calls[c].response.contentType
BodyTextOf(c) == IF calls[c].response.body.t = "null" THEN "" ELSE calls[c].response.body.v
ResultOf(c) == calls[c].outcome.value
Is2xx(status) == status \in 200..299
JsonHeaders == { JStr("application/json"), JStr("application/json; charset=utf-8") }
Parseable(c) == JsonParse(BodyTextOf(c)).ok
ParsedOf(c) == JsonParse(BodyTextOf(c)).val
PassThroughCase(c) == Delivered(c) /\ Is2xx(StatusOf(c)) /\ HeaderOf(c) \in JsonHeaders /\ Parseable(c)

Envelope(message, extensions) ==
    [t |-> "obj", v |-> << <<"errors",
        [t |-> "arr", v |-> << [t |-> "obj", v |->
            << <<"message", [t |-> "str", v |-> message]>>,
               <<"extensions", [t |-> "obj", v |-> extensions]>> >>] >>]>> >>]

HasErrorsArray(x) == HasKey(x, "errors") /\ Get(x, "errors").t = "arr"
SingleError(x) ==
    /\ HasErrorsArray(x) /\ Len(Get(x, "errors").v) = 1
    /\ HasKey(Get(x, "errors").v[1], "message")
    /\ HasKey(Get(x, "errors").v[1], "extensions")
    /\ IsObject(Get(Get(x, "errors").v[1], "extensions"))
MessageIn(x) == Get(Get(x, "errors").v[1], "message").v
ExtensionsIn(x) == Get(Get(x, "errors").v[1], "extensions")
IsClientError(x) ==
    SingleError(x) /\ HasKey(ExtensionsIn(x), "clientError")
                   /\ Get(ExtensionsIn(x), "clientError") = JBool(TRUE)
EmbedsResponseText(x) == SingleError(x) /\ HasKey(ExtensionsIn(x), "responseText")
ResponseTextIn(x) == Get(ExtensionsIn(x), "responseText").v

(***************************************************************************)
(* C1: a forwarder call never propagates an exception to the tool handler: *)
(* no call is ever in a state where the forwarder threw or the handler     *)
(* failed, every settled call holds a returned value, and whenever the     *)
(* call is not a 2xx response with a parseable JSON body that value        *)
(* carries an `errors` array.                                              *)
(***************************************************************************)
C1_ReturnsEnvelope ==
    \A c \in CallIds :
        /\ calls[c].outcome.kind # "throw"
        /\ calls[c].pc # "failed"
        /\ Settled(c) =>
              /\ calls[c].outcome.kind = "return"
              /\ ~(Delivered(c) /\ Is2xx(StatusOf(c)) /\ Parseable(c))
                    => HasErrorsArray(ResultOf(c))
        /\ calls[c].pc = "done" => Len(calls[c].content.content) = 1

\* A transport exception that is not an Error object was turned into a value.
C1_Witness ==
    \E c \in CallIds :
        /\ calls[c].pc = "done" /\ calls[c].fetchState = "rejected"
        /\ calls[c].fetchError = JNum(42)
        /\ Truthy(calls[c].variables)

(***************************************************************************)
(* C2: a 2xx response with a JSON content-type and a body that parses is   *)
(* returned as exactly the parsed upstream value: `data` and `errors` pass *)
(* through and no synthesized wrapper is added.                            *)
(***************************************************************************)
C2_PassThrough ==
    \A c \in CallIds :
        Settled(c) /\ PassThroughCase(c) =>
            /\ calls[c].outcome = [kind |-> "return", value |-> ParsedOf(c)]
            /\ BodyTextOf(c) = "{\"data\":{\"x\":1}}" =>
                  ResultOf(c) = JObj(<< <<"data", JObj(<< <<"x", JNum(1)>> >>)>> >>)
            /\ BodyTextOf(c) = "{\"data\":null,\"errors\":[{\"message\":\"Field not found\"}]}" =>
                  ResultOf(c) = JObj(<< <<"data", JNull>>,
                                        <<"errors", JArr(<< JObj(<< <<"message",
                                              JStr("Field not found")>> >>) >>)>> >>)

\* An upstream GraphQL error document came back through a 2xx response.
C2_Witness ==
    \E c \in CallIds :
        /\ Settled(c) /\ PassThroughCase(c) /\ StatusOf(c) = 299
        /\ HasKey(ResultOf(c), "data") /\ HasKey(ResultOf(c), "errors")

(***************************************************************************)
(* C3 (as claimed): a JSON content-type with a body that fails to parse    *)
(* yields the single error "...API Error <status>: Failed to parse JSON    *)
(* response." with extensions {statusCode, responseText: first 1000        *)
(* characters of the raw body}, and no other kind of error.  The message   *)
(* is only required to contain the claimed text.                           *)
(***************************************************************************)
C3_ParseFailureEnvelope ==
    \A c \in CallIds :
        Settled(c) /\ Delivered(c) /\ HeaderOf(c) \in JsonHeaders /\ ~Parseable(c) =>
            /\ SingleError(ResultOf(c))
            /\ Includes(MessageIn(ResultOf(c)),
                        "API Error " \o ToString(StatusOf(c)) \o ": Failed to parse JSON response.")
            /\ ExtensionsIn(ResultOf(c)) =
                  JObj(<< <<"statusCode", JNum(StatusOf(c))>>,
                          <<"responseText",
                            JStr(SubSeq(BodyTextOf(c), 1, Min(Len(BodyTextOf(c)), 1000)))>> >>)

(***************************************************************************)
(* C4 (as claimed): a non-2xx response with a JSON content-type and a body *)
(* that parses yields {errors: [{message: "API Error <status>",            *)
(* extensions: {statusCode, responseBody: the parsed JSON}}]}.             *)
(***************************************************************************)
C4_Original ==
    \A c \in CallIds :
        Settled(c) /\ Delivered(c) /\ ~Is2xx(StatusOf(c)) /\ HeaderOf(c) \in JsonHeaders
                   /\ Parseable(c) =>
            ResultOf(c) = Envelope("API Error " \o ToString(StatusOf(c)),
                                   << <<"statusCode", JNum(StatusOf(c))>>,
                                      <<"responseBody", ParsedOf(c)>> >>)

(***************************************************************************)
(* C4 (amended): the same envelope with the message the code builds,       *)
(* "NCI PDC API HTTP Error <status>"; HTTP 500 with body                   *)
(* {"message": "boom"} yields message "NCI PDC API HTTP Error 500" and     *)
(* responseBody {"message": "boom"}.                                       *)
(***************************************************************************)
C4_HttpErrorEnvelope ==
    \A c \in CallIds :
        Settled(c) /\ Delivered(c) /\ ~Is2xx(StatusOf(c)) /\ HeaderOf(c) \in JsonHeaders
                   /\ Parseable(c) =>
            /\ calls[c].outcome.kind = "return"
            /\ ResultOf(c) = Envelope("NCI PDC API HTTP Error " \o ToString(StatusOf(c)),
                                      << <<"statusCode", JNum(StatusOf(c))>>,
                                         <<"responseBody", ParsedOf(c)>> >>)
            /\ StatusOf(c) = 500 /\ BodyTextOf(c) = "{\"message\":\"boom\"}" =>
                  ResultOf(c) = Envelope("NCI PDC API HTTP Error 500",
                                         << <<"statusCode", JNum(500)>>,
                                            <<"responseBody",
                                              JObj(<< <<"message", JStr("boom")>> >>)>> >>)

\* HTTP 300, the first status past the 2xx range, with a JSON body.
C4_Witness ==
    \E c \in CallIds :
        /\ Settled(c) /\ Delivered(c) /\ StatusOf(c) = 300 /\ HeaderOf(c) \in JsonHeaders
        /\ BodyTextOf(c) = "{\"message\":\"boom\"}"
        /\ SingleError(ResultOf(c))

(***************************************************************************)
(* C5 (as claimed): an absent or non-JSON content-type yields, for every   *)
(* status, the envelope with message "API Error <status>: Non-JSON         *)
(* response received." and extensions {statusCode, contentType,            *)
(* responseText}.                                                          *)
(***************************************************************************)
C5_Original ==
    \A c \in CallIds :
        Settled(c) /\ Delivered(c) /\ HeaderOf(c) \notin JsonHeaders =>
            ResultOf(c) = Envelope("API Error " \o ToString(StatusOf(c))
                                       \o ": Non-JSON response received.",
                                   << <<"statusCode", JNum(StatusOf(c))>>,
                                      <<"contentType", HeaderOf(c)>>,
                                      <<"responseText",
                                        JStr(SubSeq(BodyTextOf(c), 1,
                                                    Min(Len(BodyTextOf(c)), 1000)))>> >>)

(***************************************************************************)
(* C5 (amended): the same for every status, 2xx or not, with the message   *)
(* the code builds, "NCI PDC API Error <status>: Non-JSON response         *)
(* received."; contentType is the header as read (null when absent); the   *)
(* HTTP-error envelope is never returned for such a response.              *)
(***************************************************************************)
C5_NonJsonEnvelope ==
    \A c \in CallIds :
        Settled(c) /\ Delivered(c) /\ HeaderOf(c) \notin JsonHeaders =>
            /\ calls[c].outcome.kind = "return"
            /\ ResultOf(c) = Envelope("NCI PDC API Error " \o ToString(StatusOf(c))
                                          \o ": Non-JSON response received.",
                                      << <<"statusCode", JNum(StatusOf(c))>>,
                                         <<"contentType", HeaderOf(c)>>,
                                         <<"responseText",
                                           JStr(SubSeq(BodyTextOf(c), 1,
                                                       Min(Len(BodyTextOf(c)), 1000)))>> >>)
            /\ ~HasKey(ExtensionsIn(ResultOf(c)), "responseBody")

\* A 500 page served as text/html whose body would parse as JSON.
C5_Witness ==
    \E c \in CallIds :
        /\ Settled(c) /\ Delivered(c) /\ StatusOf(c) = 500
        /\ HeaderOf(c) = JStr("text/html")
        /\ BodyTextOf(c) = "{\"message\":\"boom\"}"
        /\ EmbedsResponseText(ResultOf(c))

(***************************************************************************)
(* C6 (as claimed): a fetch that fails with an exception yields exactly    *)
(* {errors: [{message: the exception's message or its string form,         *)
(* extensions: {clientError: true}}]}, and an envelope with clientError:   *)
(* true is returned only when a transport-level exception occurred.        *)
(***************************************************************************)
C6_ClientErrorOnlyOnTransportFailure ==
    \A c \in CallIds :
        Settled(c) =>
            /\ calls[c].fetchState = "rejected" =>
                  ResultOf(c) = Envelope(IF calls[c].fetchError.t = "Error"
                                         THEN calls[c].fetchError.v
                                         ELSE JsString(calls[c].fetchError),
                                         << <<"clientError", JBool(TRUE)>> >>)
            /\ IsClientError(ResultOf(c)) => calls[c].transportFailed

(***************************************************************************)
(* C7: in every synthesized error envelope that embeds raw response text,  *)
(* responseText is the prefix of the raw body of length                    *)
(* min(length(body), 1000).                                                *)
(***************************************************************************)
C7_ResponseTextPrefix ==
    \A c \in CallIds :
        Settled(c) /\ ~PassThroughCase(c) /\ EmbedsResponseText(ResultOf(c)) =>
            LET rt == ResponseTextIn(ResultOf(c))
                body == BodyTextOf(c)
            IN  /\ Len(rt) = Min(Len(body), 1000)
                /\ rt = SubSeq(body, 1, Len(rt))
                /\ Len(body) = 1001 => Len(rt) = 1000
                /\ Len(body) <= 1000 => rt = body

\* A body of exactly 1001 characters was embedded.
C7_Witness ==
    \E c \in CallIds :
        /\ Settled(c) /\ EmbedsResponseText(ResultOf(c))
        /\ Len(BodyTextOf(c)) = 1001
        /\ Len(ResponseTextIn(ResultOf(c))) = 1000

(***************************************************************************)
(* C8 (as claimed): every value the forwarder returns is a JSON object,    *)
(* also for a 2xx JSON response whose parsed body is not an object.        *)
(***************************************************************************)
C8_Original ==
    \A c \in CallIds : Settled(c) => IsObject(ResultOf(c))

(***************************************************************************)
(* C8 (amended): every value the forwarder returns is a JSON value; it is  *)
(* a JSON object except for a 2xx JSON response whose parsed body is not   *)
(* an object, which is returned as that parsed value.                      *)
(***************************************************************************)
C8_ObjectUnlessUpstreamIsNot ==
    \A c \in CallIds :
        Settled(c) =>
            /\ calls[c].outcome.kind = "return"
            /\ IsJsonValue(ResultOf(c))
            /\ \/ IsObject(ResultOf(c))
               \/ PassThroughCase(c) /\ ~IsObject(ParsedOf(c)) /\ ResultOf(c) = ParsedOf(c)

\* The upstream answered 200 with the JSON text null.
C8_Witness ==
    \E c \in CallIds :
        /\ calls[c].pc = "done" /\ PassThroughCase(c) /\ BodyTextOf(c) = "null"
        /\ ResultOf(c) = JNull
        /\ calls[c].content.content[1].text = "null"

(***************************************************************************)
(* C9: each call issues at most one HTTP POST, to the fixed endpoint;      *)
(* after any failure no second request is sent and the failure is returned *)
(* as an error envelope from that single attempt.                          *)
(***************************************************************************)
C9_SinglePost ==
    \A c \in CallIds :
        /\ Len(sent[c]) <= 1
        /\ \A i \in 1..Len(sent[c]) :
              sent[c][i].method = "POST" /\ sent[c][i].url = "https://pdc.cancer.gov/graphql"
        /\ calls[c].pc # "idle" => Len(sent[c]) = 1
        /\ Settled(c) /\ ~PassThroughCase(c) =>
              Len(sent[c]) = 1 /\ calls[c].outcome.kind = "return"
                               /\ HasErrorsArray(ResultOf(c))

\* A call whose fetch was rejected has returned.
C9_Witness ==
    \E c \in CallIds :
        /\ calls[c].pc = "done" /\ calls[c].fetchState = "rejected"
        /\ Len(sent[c]) = 1
        /\ JsonParse(sent[c][1].body).ok

\* What the upstream did to the request of call c.
BehaviourOf(c) ==
    [rejected |-> calls[c].fetchState = "rejected", error |-> calls[c].fetchError,
     resp |-> calls[c].response]

\* The result of a settled call is the forwarder run alone on its own behaviour.
C10_OwnResult ==
    \A c \in CallIds : Settled(c) => calls[c].outcome = Forward(BehaviourOf(c))

\* A step that changes one call leaves every other call and its requests alone.
C10_OwnState ==
    \A c \in CallIds :
        (calls'[c] # calls[c] \/ sent'[c] # sent[c]) =>
            \A d \in CallIds \ {c} : calls'[d] = calls[d] /\ sent'[d] = sent[d]

(***************************************************************************)
(* C10: concurrent forwarder calls are independent: under every            *)
(* interleaving each call's returned envelope equals what the call returns *)
(* when run alone on the upstream behaviour of its own request, and no     *)
(* step of one call changes the state or the requests of another call.     *)
(***************************************************************************)
C10_Independent == []C10_OwnResult /\ [][C10_OwnState]_vars

\* One call has returned a pass-through while another, answered earlier or
\* later with a different response, is still suspended reading its body.
C10_Witness ==
    \E c \in CallIds, d \in CallIds :
        /\ c # d
        /\ Settled(c) /\ PassThroughCase(c)
        /\ calls[d].pc \in {"json", "text", "errorText"}
        /\ calls[d].response # calls[c].response

====
